---- MODULE Spec2Model ----
(***************************************************************************)
(* Download orchestration of Yeguo-Downloader.                             *)
(*                                                                         *)
(* Spec      : VideoDownloader (src/main.py) on the GUI thread together    *)
(*             with its DownloadWorker threads.  Signals of the worker     *)
(*             threads reach the GUI thread as posted events (queued       *)
(*             connections), handled in posting order.  A modal dialog     *)
(*             (QMessageBox / QDialog.exec_) runs a nested event loop:     *)
(*             posted events and timer ticks are still handled while it    *)
(*             is open, button clicks of the main window are not, and the  *)
(*             handler that opened it continues when it is closed.         *)
(* TaskSpec  : one MagnetDownloadWorker and one ED2KDownloadWorker         *)
(*             (src/src/workers) driven by pause / resume / cancel.        *)
(* SchedSpec : the handlers and threads of Spec over longer runs.          *)
(***************************************************************************)
EXTENDS Integers, Sequences, FiniteSets, TLC

\* Config.MAX_CONCURRENT_DOWNLOADS
MAX_CONCURRENT_DOWNLOADS == 2

\* number of entries of self.formats (leaves of the format tree)
NumFormats == 4
\* number of DownloadWorker objects created over a run of Spec
MaxRequests == 3
\* number of DownloadWorker objects created over a run of SchedSpec
MaxWorkers == 5
\* number of progress events waiting in the GUI thread's event queue
MaxEvents == 1
\* total_chunks of the file an ED2KDownloadWorker downloads
TotalChunks == 2
\* DownloadWorkers created over a run of LiveSpec
MaxLive == 1

Formats == 1..NumFormats
Workers == 1..MaxWorkers

\* percent values yt_dlp reports in a "downloading" progress dict
Percents == {40}

\* the dict d handed to progress_hook: a "downloading" report or the final
\* "finished" report of a file
ProgressDicts ==
    {[status |-> "downloading", percent |-> p] : p \in Percents}
        \cup {[status |-> "finished", percent |-> 100]}

VARIABLES
    \* ---- VideoDownloader (GUI thread) ----
    is_downloading,         \* self.is_downloading
    download_progress,      \* self.download_progress: key -> percent
    download_workers,       \* self.download_workers: list of workers
    download_queue,         \* self.download_queue: deque of formats
    active_downloads,       \* self.active_downloads
    download_button,        \* download_button.isEnabled()
    pause_button,           \* pause_button.isEnabled()
    cancel_button,          \* cancel_button.isEnabled()
    pause_text,             \* pause_button.text(): "pause" | "resume"
    progress_bar,           \* progress_bar.isVisible()
    dialogs,                \* open modal dialogs, innermost last
    events,                 \* posted signals not yet handled, oldest first
    \* ---- DownloadWorker threads ----
    thread,                 \* worker -> its fields and its position in run()
    \* ---- MagnetDownloadWorker ----
    magnet,
    \* ---- ED2KDownloadWorker ----
    ed2k,
    \* ---- BaiduPanWorker ----
    baidu,
    \* ---- BuiltinAMule ----
    amule,
    \* ---- parse batch of VideoDownloader with its ParseWorkers ----
    parse,
    \* ---- ED2KServerManager ----
    manager,
    \* ---- MagnetManager.magnet_cache, ED2KManager.ed2k_cache ----
    caches,
    \* ---- bookkeeping of the termination handlers ----
    ledger                  \* what the handlers and the tick have done so far

guiVars == <<is_downloading, download_progress, download_workers,
             download_queue, active_downloads, download_button, pause_button,
             cancel_button, pause_text, progress_bar, dialogs>>
mainVars == <<guiVars, events, thread>>
otherVars == <<parse, manager, caches>>
taskVars == <<magnet, ed2k, baidu, amule, otherVars>>
vars == <<mainVars, taskVars, ledger>>

\* ledger counts, in the specifications that keep it, the terminal signals
\* handled (freed) and the requests taken out of download_queue (admitted),
\* and remembers the terminal signals handled once (handled) and those
\* handed to their handler a second time (again)
NoLedger == [freed |-> 0, admitted |-> 0, handled |-> {}, again |-> {}]

(***************************************************************************)
(* DownloadWorker                                                          *)
(***************************************************************************)

\* a worker that is created with its pause flag set
NewWorkerPaused(f) ==
    [fmt |-> f, pc |-> "run", is_cancelled |-> FALSE, is_paused |-> TRUE,
     emitted |-> "none"]

\* DownloadWorker.__init__ followed by start(): the flags are clear and the
\* thread is about to enter the while loop of run().  emitted records the
\* terminal signal the worker has emitted: "none", "finished", "error", or
\* "twice" for a second one
NewWorker(f) ==
    [fmt |-> f, pc |-> "run", is_cancelled |-> FALSE, is_paused |-> FALSE,
     emitted |-> "none"]

Unborn ==
    [fmt |-> 0, pc |-> "unborn", is_cancelled |-> FALSE, is_paused |-> FALSE,
     emitted |-> "none"]

\* a thread that has stopped: what nothing reads any more (its url and its
\* pause flag) is dropped
Stopped(t) ==
    [fmt |-> 0, pc |-> "done", is_cancelled |-> t.is_cancelled,
     is_paused |-> FALSE, emitted |-> t.emitted]

\* QThread.isRunning(): true from start() until the thread has left run()
isRunning(w) == thread[w].pc \notin {"unborn", "done"}

Born(th) == {w \in Workers : th[w].pc # "unborn"}

\* the worker object the next DownloadWorker(...) call creates
NextWorker(th) == Cardinality(Born(th)) + 1

\* keys of download_progress: start_download uses save_path/description,
\* download_progress_hook uses the file name yt_dlp reports (outtmpl
\* "%(title)s_%(id)s.%(ext)s")
DescKey(f) == <<"desc", f>>
FileKey(f) == <<"file", f>>

EmptyMap == [k \in {} |-> 0]

Put(m, k, v) == [x \in DOMAIN m \cup {k} |-> IF x = k THEN v ELSE m[x]]


Range(sq) == {sq[i] : i \in 1..Len(sq)}

\* the checked leaves in tree order (collect_checked_items walks the tree
\* top down, so a batch lists its formats in ascending tree position)
RECURSIVE InTreeOrder(_)
InTreeOrder(S) ==
    IF S = {} THEN <<>>
    ELSE LET m == CHOOSE x \in S : \A y \in S : x <= y
         IN <<m>> \o InTreeOrder(S \ {m})

(***************************************************************************)
(* VideoDownloader: the part of the state start_download works on          *)
(***************************************************************************)

Sched == [prog |-> download_progress, dw |-> download_workers,
          act |-> active_downloads, th |-> thread, q |-> download_queue]

\* start_download(url, selected_format): register the 0% entry, create and
\* start the worker, track it, count it
StartDownload(s, f) ==
    LET w == NextWorker(s.th)
    IN [s EXCEPT !.prog = Put(s.prog, DescKey(f), 0),
                 !.th = [s.th EXCEPT ![w] = NewWorker(f)],
                 !.dw = Append(s.dw, w),
                 !.act = s.act + 1]

\* download_queue.append((fmt["url"], fmt))
Enqueue(q, f) == Append(q, f)

\* the for loop of download_selected over the selected formats
RECURSIVE SubmitAll(_, _)
SubmitAll(s, fs) ==
    IF fs = <<>> THEN s
    ELSE SubmitAll(IF s.act < MAX_CONCURRENT_DOWNLOADS
                   THEN StartDownload(s, Head(fs))
                   ELSE [s EXCEPT !.q = Enqueue(s.q, Head(fs))],
                   Tail(fs))

\* download_queue.pop(): the newest entry instead of the oldest
PopRight(q) == [item |-> q[Len(q)], rest |-> SubSeq(q, 1, Len(q) - 1)]

\* download_queue.popleft()
PopLeft(q) == [item |-> Head(q), rest |-> Tail(q)]

\* the while loop that ends update_download_progress
RECURSIVE Admit(_)
Admit(s) ==
    IF s.act < MAX_CONCURRENT_DOWNLOADS /\ s.q # <<>>
    THEN LET p == PopLeft(s.q)
         IN Admit(StartDownload([s EXCEPT !.q = p.rest], p.item))
    ELSE s

SetSched(s) ==
    /\ download_progress' = s.prog
    /\ download_workers' = s.dw
    /\ active_downloads' = s.act
    /\ thread' = s.th
    /\ download_queue' = s.q

\* reset_download_state()
reset_download_state ==
    /\ download_progress' = EmptyMap
    /\ is_downloading' = FALSE
    /\ active_downloads' = 0
    /\ download_workers' = <<>>
    /\ download_button' = TRUE
    /\ pause_button' = FALSE
    /\ cancel_button' = FALSE
    /\ progress_bar' = FALSE
    /\ pause_text' = "pause"

\* the workers a control of the main window reaches: those in
\* download_workers whose thread is running
Reached == {w \in Range(download_workers) : isRunning(w)}

Push(d) == dialogs' = Append(dialogs, d)
Pop == dialogs' = SubSeq(dialogs, 1, Len(dialogs) - 1)
Top == IF dialogs = <<>> THEN "none" ELSE dialogs[Len(dialogs)]

\* the event the GUI thread handles next
HeadIs(kind) == events # <<>> /\ Head(events).kind = kind

(***************************************************************************)
(* VideoDownloader: handlers                                               *)
(***************************************************************************)

\* finalize_parse() of the first parse batch: formats were found, the
\* download button becomes usable
finalize_parse ==
    /\ ~download_button /\ ~is_downloading /\ dialogs = <<>>
    /\ download_button' = TRUE
    /\ UNCHANGED <<is_downloading, download_progress, download_workers,
                   download_queue, active_downloads, pause_button,
                   cancel_button, pause_text, progress_bar, dialogs, events,
                   thread>>

\* download_selected(): the click on the download button with the leaves in
\* `checked` ticked (FFmpeg present, so check_ffmpeg() passes); at most
\* `budget` workers are created over a run
download_selected(checked, budget) ==
    /\ dialogs = <<>> /\ download_button
    /\ LET s == SubmitAll([Sched EXCEPT !.prog = EmptyMap],
                          InTreeOrder(checked))
       IN /\ Cardinality(Born(thread)) + Len(s.dw) - Len(download_workers)
                 <= budget
          /\ SetSched(s)
    /\ is_downloading' = TRUE
    /\ download_button' = FALSE
    /\ pause_button' = TRUE
    /\ cancel_button' = TRUE
    /\ progress_bar' = TRUE
    /\ UNCHANGED <<pause_text, dialogs, events>>

\* the tick without its guard: the mean is computed and the queue served in
\* every state
update_download_progress_unguarded(budget) ==
    /\ progress_bar' = TRUE
    /\ LET s == Admit(Sched)
       IN /\ Cardinality(Born(thread)) + Len(s.dw)
                 - Len(download_workers) <= budget
          /\ SetSched(s)
    /\ UNCHANGED <<is_downloading, download_button, pause_button,
                   cancel_button, pause_text, dialogs, events>>

\* update_download_progress(): the 500 ms timer
update_download_progress(budget) ==
    IF ~is_downloading \/ DOMAIN download_progress = {}
    THEN /\ progress_bar' = FALSE
         /\ UNCHANGED <<is_downloading, download_progress, download_workers,
                        download_queue, active_downloads, download_button,
                        pause_button, cancel_button, pause_text, dialogs,
                        events, thread>>
    ELSE /\ progress_bar' = TRUE
         /\ LET s == Admit(Sched)
            IN /\ Cardinality(Born(thread)) + Len(s.dw)
                      - Len(download_workers) <= budget
               /\ SetSched(s)
         /\ UNCHANGED <<is_downloading, download_button, pause_button,
                        cancel_button, pause_text, dialogs, events>>

\* download_progress_hook(d): a progress_signal is handled
download_progress_hook ==
    /\ HeadIs("progress")
    /\ LET e == Head(events)
       IN download_progress' =
              Put(download_progress, FileKey(e.fmt),
                  IF e.d.status = "downloading" THEN e.d.percent ELSE 100)
    /\ events' = Tail(events)
    /\ UNCHANGED <<is_downloading, download_workers, download_queue,
                   active_downloads, download_button, pause_button,
                   cancel_button, pause_text, progress_bar, dialogs, thread>>

\* on_download_finished() with the entries of the finished task taken out of
\* download_progress
on_download_finished_forgetting ==
    /\ HeadIs("finished")
    /\ LET e == Head(events)
           dw == SelectSeq(download_workers, isRunning)
           kept == DOMAIN download_progress \ {DescKey(e.fmt), FileKey(e.fmt)}
       IN /\ active_downloads' = active_downloads - 1
          /\ download_workers' = dw
          /\ download_progress' = [k \in kept |-> download_progress[k]]
          /\ IF dw = <<>> /\ download_queue = <<>>
             THEN Push("completion")
             ELSE UNCHANGED dialogs
    /\ events' = Tail(events)
    /\ UNCHANGED <<is_downloading, download_queue, download_button,
                   pause_button, cancel_button, pause_text, progress_bar,
                   thread>>

\* on_download_finished(): a finished signal is handled; it ends in
\* show_completion_dialog() up to dialog.exec_() when nothing is left
on_download_finished ==
    /\ HeadIs("finished")
    /\ LET e == Head(events)
           dw == SelectSeq(download_workers, isRunning)
       IN /\ active_downloads' = active_downloads - 1
          /\ download_workers' = dw
          /\ IF dw = <<>> /\ download_queue = <<>>
             THEN Push("completion")
             ELSE UNCHANGED dialogs
    /\ events' = Tail(events)
    /\ UNCHANGED <<is_downloading, download_progress, download_queue,
                   download_button, pause_button, cancel_button, pause_text,
                   progress_bar, thread>>

\* show_completion_dialog() after dialog.exec_() has returned
completion_closed ==
    /\ Top = "completion"
    /\ Pop
    /\ reset_download_state
    /\ UNCHANGED <<download_queue, events, thread>>

\* on_download_error() up to QMessageBox.critical
on_download_error ==
    /\ HeadIs("error")
    /\ active_downloads' = active_downloads - 1
    /\ Push("error")
    /\ events' = Tail(events)
    /\ UNCHANGED <<is_downloading, download_progress, download_workers,
                   download_queue, download_button, pause_button,
                   cancel_button, pause_text, progress_bar, thread>>

\* on_download_error() after QMessageBox.critical has returned
error_closed ==
    /\ Top = "error"
    /\ Pop
    /\ reset_download_state
    /\ UNCHANGED <<download_queue, events, thread>>

\* pause_downloads() with every tracked percent set back to 0
pause_downloads_resetting ==
    /\ dialogs = <<>> /\ pause_button
    /\ thread' = [w \in Workers |->
                    IF w \in Reached
                    THEN [thread[w] EXCEPT !.is_paused = (pause_text = "pause")]
                    ELSE thread[w]]
    /\ pause_text' = IF pause_text = "pause" THEN "resume" ELSE "pause"
    /\ download_progress' = [k \in DOMAIN download_progress |-> 0]
    /\ UNCHANGED <<is_downloading, download_workers, download_queue,
                   active_downloads, download_button, pause_button,
                   cancel_button, progress_bar, dialogs, events>>

\* pause_downloads(): the click on the pause / resume button
pause_downloads ==
    /\ dialogs = <<>> /\ pause_button
    /\ thread' = [w \in Workers |->
                    IF w \in Reached
                    THEN [thread[w] EXCEPT !.is_paused = (pause_text = "pause")]
                    ELSE thread[w]]
    /\ pause_text' = IF pause_text = "pause" THEN "resume" ELSE "pause"
    /\ UNCHANGED <<is_downloading, download_progress, download_workers,
                   download_queue, active_downloads, download_button,
                   pause_button, cancel_button, progress_bar, dialogs,
                   events>>

\* cancel_downloads() up to QMessageBox.question
cancel_downloads ==
    /\ dialogs = <<>> /\ cancel_button
    /\ Push("cancel")
    /\ UNCHANGED <<is_downloading, download_progress, download_workers,
                   download_queue, active_downloads, download_button,
                   pause_button, cancel_button, pause_text, progress_bar,
                   events, thread>>

\* cancel_downloads() after the question was answered
cancel_answered(yes) ==
    /\ Top = "cancel"
    /\ Pop
    /\ IF yes
       THEN /\ thread' = [w \in Workers |->
                            IF w \in Reached
                            THEN [thread[w] EXCEPT !.is_cancelled = TRUE]
                            ELSE thread[w]]
            /\ download_queue' = <<>>
            /\ reset_download_state
            /\ UNCHANGED events
       ELSE UNCHANGED <<is_downloading, download_progress, download_workers,
                        download_queue, active_downloads, download_button,
                        pause_button, cancel_button, pause_text, progress_bar,
                        events, thread>>

(***************************************************************************)
(* DownloadWorker.run(), one worker thread each                            *)
(***************************************************************************)

Mark(t, signal) == IF t.emitted = "none" THEN signal ELSE "twice"

\* str(e) of the exception a failed download raises: the text yt_dlp gives
\* for the url, the same for every format of that url
ErrorMsgs == {"ERROR: unable to download"}

\* the arguments the slot connected in start_download receives for a posted
\* signal e (w, the sending thread, is not among them):
\* progress_signal(dict) -> download_progress_hook(d), finished(str) ->
\* on_download_finished(filename, url, selected_format), error(str) ->
\* on_download_error(error_msg)
Delivered(e) ==
    CASE e.kind = "progress" -> [d |-> e.d, filename |-> FileKey(e.fmt)]
      [] e.kind = "finished" ->
             [filename |-> FileKey(e.fmt), selected_format |-> e.fmt]
      [] e.kind = "error" -> [error_msg |-> e.msg]

\* self.<signal>.emit(...): posted to the GUI thread
Emit(e) == events' = Append(events, e)

\* the code after the loop without the test of _is_cancelled
LeaveLoopEmitting(w) ==
    /\ Emit([kind |-> "finished", w |-> w, fmt |-> thread[w].fmt])
    /\ thread' = [thread EXCEPT ![w].pc = "exiting",
                                ![w].emitted = Mark(thread[w], "finished")]

\* the code after the loop: finished is emitted unless the worker was
\* cancelled, then run() returns
LeaveLoop(w) ==
    IF ~thread[w].is_cancelled
    THEN /\ Emit([kind |-> "finished", w |-> w, fmt |-> thread[w].fmt])
         /\ thread' = [thread EXCEPT ![w].pc = "exiting",
                                     ![w].emitted = Mark(thread[w], "finished")]
    ELSE /\ thread' = [thread EXCEPT ![w].pc = "exiting"]
         /\ UNCHANGED events

\* the top of the loop with the pause test before the cancel test: a paused
\* worker sleeps and tests again, whatever its cancel flag
run_loop_pause_first(w) ==
    /\ thread[w].pc = "run"
    /\ ~thread[w].is_paused
    /\ IF thread[w].is_cancelled
       THEN LeaveLoop(w)
       ELSE /\ thread' = [thread EXCEPT ![w].pc = "download"]
            /\ UNCHANGED events
    /\ UNCHANGED guiVars

\* top of the while loop: cancelled -> break; paused -> msleep(500) and
\* continue (no change); otherwise ydl.download([self.url]) is entered
run_loop(w) ==
    /\ thread[w].pc = "run"
    /\ IF thread[w].is_cancelled
       THEN LeaveLoop(w)
       ELSE /\ ~thread[w].is_paused
            /\ thread' = [thread EXCEPT ![w].pc = "download"]
            /\ UNCHANGED events
    /\ UNCHANGED guiVars

\* progress_hook(d), called by yt_dlp inside ydl.download: DownloadCancelled
\* leaves the loop, DownloadPaused goes back to its top, otherwise the
\* progress_signal is emitted
progress_hook(w, d) ==
    /\ thread[w].pc = "download"
    /\ IF thread[w].is_cancelled
       THEN LeaveLoop(w)
       ELSE IF thread[w].is_paused
       THEN /\ thread' = [thread EXCEPT ![w].pc = "run"]
            /\ UNCHANGED events
       ELSE /\ Len(events) < MaxEvents
            /\ Emit([kind |-> "progress", w |-> w, fmt |-> thread[w].fmt,
                      d |-> d])
            /\ UNCHANGED thread
    /\ UNCHANGED guiVars

\* ydl.download returns: break
download_returns(w) ==
    /\ thread[w].pc = "download"
    /\ LeaveLoop(w)
    /\ UNCHANGED guiVars

\* ydl.download raises (a download error): the outer except emits error
\* unless the worker was cancelled
download_raises(w) ==
    /\ thread[w].pc = "download"
    /\ IF ~thread[w].is_cancelled
       THEN /\ \E msg \in ErrorMsgs :
                 Emit([kind |-> "error", w |-> w, msg |-> msg])
            /\ thread' = [thread EXCEPT ![w].pc = "exiting",
                                        ![w].emitted = Mark(thread[w], "error")]
       ELSE /\ thread' = [thread EXCEPT ![w].pc = "exiting"]
            /\ UNCHANGED events
    /\ UNCHANGED guiVars

\* run() has returned and the thread stops: isRunning() turns false
thread_exit(w) ==
    /\ thread[w].pc = "exiting"
    /\ thread' = [thread EXCEPT ![w] = Stopped(thread[w])]
    /\ UNCHANGED <<guiVars, events>>

(***************************************************************************)
(* MagnetDownloadWorker (src/src/workers/magnet_download_worker.py)        *)
(***************************************************************************)

\* pause() and resume() of a worker t (DownloadWorker, MagnetDownloadWorker,
\* ED2KDownloadWorker): the pause flag is set or cleared, whatever it was
pause(t) == [t EXCEPT !.is_paused = TRUE]
resume(t) == [t EXCEPT !.is_paused = FALSE]

\* the worker after __init__ and start(): run() is about to begin
NewMagnet ==
    [pc |-> "init", is_cancelled |-> FALSE, is_paused |-> FALSE,
     emitted |-> "none", reported |-> FALSE, late |-> FALSE]

\* run() up to the download loop: _check_cancelled() raises when the flag
\* is set, _init_session() / _add_magnet_link() raise when libtorrent fails
magnet_run(ok) ==
    /\ magnet.pc = "init"
    /\ magnet' = [magnet EXCEPT
                    !.pc = IF magnet.is_cancelled \/ ~ok THEN "raised"
                           ELSE "loop"]
    /\ UNCHANGED <<mainVars, ed2k, baidu, amule, otherVars>>

\* one pass of the while loop of _download_loop with the torrent in `status`;
\* a paused worker waits 100 ms and tests again
magnet_download_loop(status) ==
    /\ magnet.pc = "loop"
    /\ IF magnet.is_cancelled
       THEN magnet' = [magnet EXCEPT !.pc = "exiting"]
       ELSE /\ ~magnet.is_paused
            /\ magnet' =
                 CASE status = "seeding" ->
                        [magnet EXCEPT !.pc = "exiting",
                                       !.emitted = Mark(magnet, "finished")]
                   [] status = "error" -> [magnet EXCEPT !.pc = "raised"]
                   [] OTHER ->
                        [magnet EXCEPT !.reported = TRUE,
                                       !.late = @ \/ magnet.emitted # "none"]
    /\ UNCHANGED <<mainVars, ed2k, baidu, amule, otherVars>>

\* the except clause of run(): the error signal is emitted unless the worker
\* is cancelled or paused
magnet_except ==
    /\ magnet.pc = "raised"
    /\ magnet' = [magnet EXCEPT
                    !.pc = "exiting",
                    !.emitted = IF ~magnet.is_cancelled /\ ~magnet.is_paused
                                THEN Mark(magnet, "error") ELSE @]
    /\ UNCHANGED <<mainVars, ed2k, baidu, amule, otherVars>>

\* the finally clause of run(): _cleanup(), then the thread stops
magnet_cleanup ==
    /\ magnet.pc = "exiting"
    /\ magnet' = [magnet EXCEPT !.pc = "done"]
    /\ UNCHANGED <<mainVars, ed2k, baidu, amule, otherVars>>

magnet_cancel ==
    /\ ~magnet.is_cancelled
    /\ magnet' = [magnet EXCEPT !.is_cancelled = TRUE]
    /\ UNCHANGED <<mainVars, ed2k, baidu, amule, otherVars>>

magnet_pause ==
    /\ magnet' = pause(magnet)
    /\ UNCHANGED <<mainVars, ed2k, baidu, amule, otherVars>>

magnet_resume ==
    /\ magnet' = resume(magnet)
    /\ UNCHANGED <<mainVars, ed2k, baidu, amule, otherVars>>

(***************************************************************************)
(* ED2KDownloadWorker (src/src/workers/ed2k_download_worker.py), built-in  *)
(* downloader without a reachable server: _simulate_ed2k_download          *)
(***************************************************************************)

\* size_tolerance of _verify_file_integrity, in chunks (both are 1 MB)
SizeTolerance == 1

\* ED2KProtocol after __init__ (src/src/core/ed2k_protocol.py): not
\* connected, no download thread; remaining counts the chunks its download
\* thread has still to write
NewProtocol == [is_connected |-> FALSE, pc |-> "idle", remaining |-> 0]

\* the worker after __init__ and start(); stopped records a call of stop(),
\* chunks counts the chunks written, downloaded_size is self.downloaded_size
\* in chunks, progress the last percent emitted with progress_updated
NewED2K ==
    [pc |-> "started", is_running |-> FALSE, is_paused |-> FALSE,
     stopped |-> FALSE, chunks |-> 0, downloaded_size |-> 0, progress |-> 0,
     emitted |-> "none", late |-> FALSE, ed2k_protocol |-> NewProtocol]

\* int((self.downloaded_size / self.file_size) * 100) for a file of
\* TotalChunks chunks
Percent(downloaded_size) == (downloaded_size * 100) \div TotalChunks

\* _verify_file_integrity for a file of TotalChunks chunks of which c are
\* written
Verify(c) == ~(TotalChunks - c > SizeTolerance)

\* run() up to the chunk loop of _simulate_ed2k_download, the target file
\* holding `existing` chunks already (0 when it is absent): downloaded_size
\* starts from the size of that file
ed2k_run(existing) ==
    /\ ed2k.pc = "started"
    /\ ed2k' = [ed2k EXCEPT !.pc = "loop", !.is_running = TRUE,
                            !.is_paused = FALSE,
                            !.downloaded_size = existing]
    /\ UNCHANGED <<mainVars, magnet, baidu, amule, otherVars>>

\* run() when a server is reached: connect_to_server sets is_connected,
\* _download_with_real_ed2k calls ed2k_protocol.download_file, which starts
\* the download thread and returns; run() goes on to its finally clause
download_with_real_ed2k ==
    /\ ed2k.pc = "started"
    /\ ed2k' = [ed2k EXCEPT
                  !.pc = "exiting", !.is_running = TRUE, !.is_paused = FALSE,
                  !.ed2k_protocol = [is_connected |-> TRUE, pc |-> "transfer",
                                     remaining |-> TotalChunks]]
    /\ UNCHANGED <<mainVars, magnet, baidu, amule, otherVars>>

\* _on_ed2k_download_complete: download_finished is emitted
on_ed2k_download_complete(t) == [t EXCEPT !.emitted = Mark(t, "finished")]

\* ED2KProtocol._download_file_worker: one pass of "while remaining_size > 0
\* and self.is_connected" writes a chunk; after the loop on_download_complete
\* is called
download_file_worker ==
    /\ ed2k.ed2k_protocol.pc = "transfer"
    /\ IF ed2k.ed2k_protocol.remaining > 0 /\ ed2k.ed2k_protocol.is_connected
       THEN ed2k' = [ed2k EXCEPT !.ed2k_protocol.remaining = @ - 1]
       ELSE ed2k' = [on_ed2k_download_complete(ed2k) EXCEPT
                       !.ed2k_protocol.pc = "done"]
    /\ UNCHANGED <<mainVars, magnet, baidu, amule, otherVars>>

\* the connection to the server is lost (_remove_server) or closed
\* (disconnect)
server_lost ==
    /\ ed2k.ed2k_protocol.is_connected
    /\ ed2k' = [ed2k EXCEPT !.ed2k_protocol.is_connected = FALSE]
    /\ UNCHANGED <<mainVars, magnet, baidu, amule, otherVars>>

\* one pass of the for loop over the chunks
ed2k_chunk ==
    /\ ed2k.pc = "loop"
    /\ IF ed2k.chunks = TotalChunks
       THEN ed2k' = [ed2k EXCEPT !.pc = "after"]
       ELSE IF ~ed2k.is_running \/ ed2k.is_paused
       THEN ed2k' = [ed2k EXCEPT !.pc = "after"]
       ELSE ed2k' = [ed2k EXCEPT !.chunks = @ + 1,
                                 !.downloaded_size = @ + 1,
                                 !.progress = Percent(ed2k.downloaded_size + 1),
                                 !.late = @ \/ ed2k.emitted # "none"]
    /\ UNCHANGED <<mainVars, magnet, baidu, amule, otherVars>>

\* the code after the loop: download_finished after a passed verification,
\* RuntimeError (download_error from run's except) after a failed one,
\* nothing when the download was interrupted
ed2k_after_loop ==
    /\ ed2k.pc = "after"
    /\ ed2k' = [ed2k EXCEPT
                  !.pc = "exiting",
                  !.emitted = IF ed2k.is_running /\ ~ed2k.is_paused
                              THEN Mark(ed2k, IF Verify(ed2k.chunks)
                                              THEN "finished" ELSE "error")
                              ELSE @]
    /\ UNCHANGED <<mainVars, magnet, baidu, amule, otherVars>>

\* the finally clause of run()
ed2k_finally ==
    /\ ed2k.pc = "exiting"
    /\ ed2k' = [ed2k EXCEPT !.pc = "done", !.is_running = FALSE]
    /\ UNCHANGED <<mainVars, magnet, baidu, amule, otherVars>>

ed2k_pause ==
    /\ ed2k' = pause(ed2k)
    /\ UNCHANGED <<mainVars, magnet, baidu, amule, otherVars>>

ed2k_resume ==
    /\ ed2k' = resume(ed2k)
    /\ UNCHANGED <<mainVars, magnet, baidu, amule, otherVars>>

\* stop(), which cancel() calls
ed2k_stop ==
    /\ ~ed2k.stopped
    /\ ed2k' = [ed2k EXCEPT !.is_running = FALSE, !.is_paused = FALSE,
                            !.stopped = TRUE]
    /\ UNCHANGED <<mainVars, magnet, baidu, amule, otherVars>>

(***************************************************************************)
(* BaiduPanWorker (src/src/workers/baidu_pan_worker.py)                    *)
(***************************************************************************)

\* the progress signals of one _simulate_download (the code steps from 0 to
\* 100 by 5)
BaiduSteps == 2

\* the worker after __init__ and start(); pause_called records that pause()
\* was called and resume() was not called since, stopped a call of stop(),
\* progress counts the progress_updated signals emitted
NewBaidu ==
    [pc |-> "started", is_running |-> FALSE, pause_called |-> FALSE,
     stopped |-> FALSE, progress |-> 0, emitted |-> "none"]

\* run() up to the loop of _simulate_download
baidu_run ==
    /\ baidu.pc = "started"
    /\ baidu' = [baidu EXCEPT !.pc = "loop", !.is_running = TRUE]
    /\ UNCHANGED <<mainVars, magnet, ed2k, amule, otherVars>>

\* one pass of the for loop of _simulate_download: break when is_running is
\* clear, else emit progress_updated
baidu_simulate_download ==
    /\ baidu.pc = "loop"
    /\ IF baidu.progress = BaiduSteps \/ ~baidu.is_running
       THEN baidu' = [baidu EXCEPT !.pc = "after"]
       ELSE baidu' = [baidu EXCEPT !.progress = @ + 1]
    /\ UNCHANGED <<mainVars, magnet, ed2k, amule, otherVars>>

\* after the loop: download_finished is emitted if is_running is still set
baidu_after_loop ==
    /\ baidu.pc = "after"
    /\ baidu' = [baidu EXCEPT
                   !.pc = "exiting",
                   !.emitted = IF baidu.is_running
                               THEN Mark(baidu, "finished") ELSE @]
    /\ UNCHANGED <<mainVars, magnet, ed2k, amule, otherVars>>

\* the finally clause of run()
baidu_finally ==
    /\ baidu.pc = "exiting"
    /\ baidu' = [baidu EXCEPT !.pc = "done", !.is_running = FALSE]
    /\ UNCHANGED <<mainVars, magnet, ed2k, amule, otherVars>>

\* pause() only writes a log line
baidu_pause ==
    /\ baidu' = [baidu EXCEPT !.pause_called = TRUE]
    /\ UNCHANGED <<mainVars, magnet, ed2k, amule, otherVars>>

\* resume() only writes a log line
baidu_resume ==
    /\ baidu' = [baidu EXCEPT !.pause_called = FALSE]
    /\ UNCHANGED <<mainVars, magnet, ed2k, amule, otherVars>>

\* stop(), which cancel() calls
baidu_stop ==
    /\ ~baidu.stopped
    /\ baidu' = [baidu EXCEPT !.is_running = FALSE, !.stopped = TRUE]
    /\ UNCHANGED <<mainVars, magnet, ed2k, amule, otherVars>>

(***************************************************************************)
(* BuiltinAMule (src/src/core/amule_integration.py): the calls of its      *)
(* owner and the steps of the download-manager thread                      *)
(***************************************************************************)

\* the calls of add_download in one run
MaxAdds == 2

\* file hashes of the requests
Hashes == {"a", "b"}

\* links handed to add_download, as <<scheme, rest>>
Links == {<<"ed2k://", "|file|a|">>, <<"http://", "a">>, <<>>}

\* ed2k_url.startswith(prefix)
startswith(url, prefix) == Len(url) >= 1 /\ url[1] = prefix

\* BuiltinAMule after __init__: infos holds the download_info dicts created
\* so far (download_queue and downloads refer to them by index),
\* downloads[h] = 0 when h is not a key, calls counts the calls of
\* add_download, ed2k_url and returned are the link and the result of the
\* last one
NewAMule ==
    [infos |-> <<>>, downloads |-> [h \in Hashes |-> 0],
     download_queue |-> <<>>, calls |-> 0, ed2k_url |-> <<>>,
     returned |-> TRUE]

\* download_info as add_download creates it; cancelled records that
\* cancel_download deleted it from downloads, started that _start_download
\* ran for it, emitted the calls of on_download_complete
NewInfo(filehash) ==
    [filehash |-> filehash, status |-> "queued", downloaded_size |-> 0,
     cancelled |-> FALSE, started |-> FALSE, emitted |-> "none"]

\* add_download that builds and queues download_info before it looks at
\* the link
add_download_queueing_first(ed2k_url, filehash) ==
    /\ amule.calls < MaxAdds
    /\ amule' = [amule EXCEPT
                   !.calls = @ + 1,
                   !.ed2k_url = ed2k_url,
                   !.infos = Append(@, NewInfo(filehash)),
                   !.download_queue = Append(@, Len(amule.infos) + 1),
                   !.downloads[filehash] = Len(amule.infos) + 1,
                   !.returned = startswith(ed2k_url, "ed2k://")]
    /\ UNCHANGED <<mainVars, magnet, ed2k, baidu, otherVars>>

add_download(ed2k_url, filehash) ==
    /\ amule.calls < MaxAdds
    /\ IF ~startswith(ed2k_url, "ed2k://")
       THEN amule' = [amule EXCEPT !.calls = @ + 1, !.ed2k_url = ed2k_url,
                                   !.returned = FALSE]
       ELSE amule' = [amule EXCEPT
                        !.calls = @ + 1,
                        !.ed2k_url = ed2k_url,
                        !.infos = Append(@, NewInfo(filehash)),
                        !.download_queue = Append(@, Len(amule.infos) + 1),
                        !.downloads[filehash] = Len(amule.infos) + 1,
                        !.returned = TRUE]
    /\ UNCHANGED <<mainVars, magnet, ed2k, baidu, otherVars>>

\* _start_download
start_download_info(info) ==
    [info EXCEPT !.status = "downloading", !.started = TRUE]

\* _download_manager_worker, first half of a pass: the head of
\* download_queue is popped and started
download_manager_worker ==
    /\ amule.download_queue # <<>>
    /\ amule' = [amule EXCEPT
                   !.download_queue = Tail(@),
                   !.infos[Head(amule.download_queue)] =
                       start_download_info(@)]
    /\ UNCHANGED <<mainVars, magnet, ed2k, baidu, otherVars>>

\* _complete_download: status 'completed', the file is written and
\* on_download_complete is called; an exception on the way (ok false) sets
\* status 'error'
complete_download(info, ok) ==
    IF ok THEN [info EXCEPT !.status = "completed",
                            !.downloaded_size = TotalChunks,
                            !.emitted = Mark(info, "finished")]
    ELSE [info EXCEPT !.status = "error", !.downloaded_size = TotalChunks]

\* _update_download_progress for the entry of filehash: a downloading entry
\* gets the size the clock gives (size, never less than before) and is
\* completed when that is the file size
update_download_progress_info(filehash, size, ok) ==
    /\ amule.downloads[filehash] # 0
    /\ LET i == amule.downloads[filehash]
           info == amule.infos[i]
       IN  /\ info.status = "downloading"
           /\ size >= info.downloaded_size
           /\ amule' = [amule EXCEPT !.infos[i] =
                  IF size >= TotalChunks
                  THEN complete_download(info, ok)
                  ELSE [info EXCEPT !.downloaded_size = size]]
    /\ UNCHANGED <<mainVars, magnet, ed2k, baidu, otherVars>>

pause_download(filehash) ==
    /\ amule.downloads[filehash] # 0
    /\ amule' = [amule EXCEPT
                   !.infos[amule.downloads[filehash]].status = "paused"]
    /\ UNCHANGED <<mainVars, magnet, ed2k, baidu, otherVars>>

resume_download(filehash) ==
    /\ amule.downloads[filehash] # 0
    /\ amule' = [amule EXCEPT
                   !.infos[amule.downloads[filehash]].status = "downloading"]
    /\ UNCHANGED <<mainVars, magnet, ed2k, baidu, otherVars>>

cancel_download(filehash) ==
    /\ amule.downloads[filehash] # 0
    /\ amule' = [amule EXCEPT
                   !.downloads[filehash] = 0,
                   !.infos[amule.downloads[filehash]].cancelled = TRUE]
    /\ UNCHANGED <<mainVars, magnet, ed2k, baidu, otherVars>>

(***************************************************************************)
(* VideoDownloader.parse_video with its ParseWorkers (src/main.py)         *)
(***************************************************************************)

\* the urls of one parse batch
MaxUrls == 2

\* the entries of a playlist
MaxEntries == 2

\* VideoDownloader before parse_video: no batch, no ParseWorker; events
\* holds the posted signals of the ParseWorkers, finalized counts the calls
\* of finalize_parse
NewParse ==
    [total_urls |-> 0, parsed_count |-> 0, parse_workers |-> <<>>,
     events |-> <<>>, finalized |-> 0]

\* ParseWorker after __init__ and start(); left counts the results run()
\* has still to emit
NewParseWorker == [pc |-> "run", left |-> 0]

\* parse_video() with n valid urls in the input box: one ParseWorker per url
\* is started
parse_video(n) ==
    /\ parse.parse_workers = <<>>
    /\ parse' = [parse EXCEPT !.total_urls = n, !.parsed_count = 0,
                              !.parse_workers = [i \in 1..n |-> NewParseWorker]]
    /\ UNCHANGED <<mainVars, magnet, ed2k, baidu, amule, manager, caches>>

\* ParseWorker.run: extract_info returns a video (entries = 1), a playlist
\* of `entries` entries, or raises (entries = 0): the error signal is emitted
parse_run(w, entries) ==
    /\ w \in 1..Len(parse.parse_workers)
    /\ parse.parse_workers[w].pc = "run"
    /\ IF entries = 0
       THEN parse' = [parse EXCEPT
                        !.parse_workers[w].pc = "exiting",
                        !.events = Append(@, [kind |-> "error", w |-> w])]
       ELSE parse' = [parse EXCEPT !.parse_workers[w].pc = "emit",
                                   !.parse_workers[w].left = entries]
    /\ UNCHANGED <<mainVars, magnet, ed2k, baidu, amule, manager, caches>>

\* ParseWorker.run: self.finished.emit(entry) for the next result
parse_emit(w) ==
    /\ w \in 1..Len(parse.parse_workers)
    /\ parse.parse_workers[w].pc = "emit"
    /\ parse' = [parse EXCEPT
                   !.parse_workers[w].left = @ - 1,
                   !.parse_workers[w].pc =
                       IF parse.parse_workers[w].left = 1 THEN "exiting"
                       ELSE "emit",
                   !.events = Append(@, [kind |-> "finished", w |-> w])]
    /\ UNCHANGED <<mainVars, magnet, ed2k, baidu, amule, manager, caches>>

\* run() has returned and the thread stops: isRunning() turns false
parse_thread_exit(w) ==
    /\ w \in 1..Len(parse.parse_workers)
    /\ parse.parse_workers[w].pc = "exiting"
    /\ parse' = [parse EXCEPT !.parse_workers[w].pc = "done"]
    /\ UNCHANGED <<mainVars, magnet, ed2k, baidu, amule, manager, caches>>

\* cache_and_finish(info, url): a finished signal of a ParseWorker is
\* handled; finalize_parse is called when parsed_count has reached
\* total_urls and no ParseWorker is running
cache_and_finish ==
    /\ parse.events # <<>> /\ Head(parse.events).kind = "finished"
    /\ LET count == parse.parsed_count + 1
           stopped == \A w \in 1..Len(parse.parse_workers) :
                          parse.parse_workers[w].pc = "done"
       IN parse' = [parse EXCEPT
                      !.events = Tail(@),
                      !.parsed_count = count,
                      !.finalized = IF count = parse.total_urls /\ stopped
                                    THEN @ + 1 ELSE @]
    /\ UNCHANGED <<mainVars, magnet, ed2k, baidu, amule, manager, caches>>

\* on_parse_error(error_msg): the message box, the log line and the parse
\* button; parsed_count is not touched
on_parse_error ==
    /\ parse.events # <<>> /\ Head(parse.events).kind = "error"
    /\ parse' = [parse EXCEPT !.events = Tail(@)]
    /\ UNCHANGED <<mainVars, magnet, ed2k, baidu, amule, manager, caches>>

(***************************************************************************)
(* ED2KServerManager (src/src/core/ed2k_servers.py)                        *)
(***************************************************************************)

\* the calls made on the manager in one run
MaxCalls == 3

\* the servers of one fetched batch
MaxBatch == 2

\* (ip, port) of the servers
ServerKeys == {"s1", "s2"}

\* priority of a fetched or custom server (5 is the default of
\* add_custom_server, 1 the priority of the first default server)
Priorities == {1, 5}

\* ED2KServerInfo with time.time() = now; success_count stays 0, nothing
\* here calls update_server_status
ServerInfo(key, priority, now) ==
    [key |-> key, priority |-> priority, last_seen |-> now]

\* the batches update_servers_from_sources can fetch: up to MaxBatch
\* servers, an ip:port possibly repeated
Fetched ==
    UNION {[1..n -> {ServerInfo(k, p, 0) : k \in ServerKeys, p \in Priorities}]
               : n \in 1..MaxBatch}

\* the manager after __init__ without a servers file: the default list (here
\* its first server) is loaded and saved.  server_lock is "free" or "held",
\* file is the content of servers_file, now the clock; call, arg and
\* returned describe the last call
NewManager ==
    [servers |-> <<ServerInfo("s1", 1, 0)>>, server_lock |-> "free",
     file |-> <<ServerInfo("s1", 1, 0)>>, now |-> 0,
     call |-> "none", arg |-> "none", returned |-> "none"]

\* the key of self.servers.sort: (priority, -success_count, -last_seen)
SortsBefore(a, b) ==
    \/ a.priority < b.priority
    \/ a.priority = b.priority /\ a.last_seen > b.last_seen

\* list.sort with that key (stable)
RECURSIVE SortServers(_)
SortServers(s) ==
    IF s = <<>> THEN <<>>
    ELSE LET rest == SortServers(SubSeq(s, 1, Len(s) - 1))
             x == s[Len(s)]
             at == IF \E i \in 1..Len(rest) : SortsBefore(x, rest[i])
                   THEN (CHOOSE i \in 1..Len(rest) :
                            /\ SortsBefore(x, rest[i])
                            /\ \A j \in 1..(i - 1) : ~SortsBefore(x, rest[j]))
                        - 1
                   ELSE Len(rest)
         IN SubSeq(rest, 1, at) \o <<x>> \o SubSeq(rest, at + 1, Len(rest))

\* _save_servers: takes server_lock (a threading.Lock, not reentrant) and
\* writes the list; a caller that holds the lock already blocks in it
save_servers(m) ==
    IF m.server_lock = "held" THEN [m EXCEPT !.returned = "blocked"]
    ELSE [m EXCEPT !.file = m.servers]

\* the loop of _merge_servers over new_servers: existing_map is built from
\* the list as it was before the loop (its first n0 entries); a known server
\* is updated in place, an unknown one appended
RECURSIVE MergeLoop(_, _, _, _)
MergeLoop(servers, n0, new_servers, now) ==
    IF new_servers = <<>> THEN servers
    ELSE LET new_server == Head(new_servers)
             known == {i \in 1..n0 : servers[i].key = new_server.key}
             existing == CHOOSE i \in known : \A j \in known : j <= i
             next ==
               IF known # {}
               THEN [servers EXCEPT
                       ![existing].priority =
                           IF new_server.priority < @ THEN new_server.priority
                           ELSE @,
                       ![existing].last_seen = now]
               ELSE Append(servers, [new_server EXCEPT !.last_seen = now])
         IN MergeLoop(next, n0, Tail(new_servers), now)

\* _merge_servers
merge_servers(servers, new_servers, now) ==
    SortServers(MergeLoop(servers, Len(servers), new_servers, now))

\* update_servers_from_sources with new_servers fetched: _merge_servers
\* under the lock, then _save_servers
update_servers_from_sources(new_servers) ==
    /\ manager.now < MaxCalls /\ manager.server_lock = "free"
    /\ LET now == manager.now + 1
       IN manager' = save_servers(
              [manager EXCEPT
                 !.servers = merge_servers(@, new_servers, now),
                 !.now = now, !.call = "update_servers_from_sources",
                 !.arg = "none", !.returned = "none"])
    /\ UNCHANGED <<mainVars, magnet, ed2k, baidu, amule, parse, caches>>

add_custom_server(key, priority) ==
    /\ manager.now < MaxCalls /\ manager.server_lock = "free"
    /\ LET now == manager.now + 1
           m == [manager EXCEPT !.now = now, !.call = "add_custom_server",
                                !.arg = key]
       IN IF \E i \in 1..Len(manager.servers) : manager.servers[i].key = key
          THEN manager' = [m EXCEPT !.returned = "False"]
          ELSE manager' = save_servers(
                   [m EXCEPT
                      !.servers = SortServers(
                          Append(@, ServerInfo(key, priority, now))),
                      !.returned = "True"])
    /\ UNCHANGED <<mainVars, magnet, ed2k, baidu, amule, parse, caches>>

\* remove_server: the first server with that ip:port is popped and
\* _save_servers is called, all inside "with self.server_lock"
remove_server(key) ==
    /\ manager.now < MaxCalls /\ manager.server_lock = "free"
    /\ LET m == [manager EXCEPT !.now = @ + 1, !.call = "remove_server",
                                !.arg = key]
           found == {i \in 1..Len(manager.servers) :
                         manager.servers[i].key = key}
           i == CHOOSE x \in found : \A y \in found : x <= y
       IN IF found = {}
          THEN manager' = [m EXCEPT !.returned = "False"]
          ELSE LET saved == save_servers(
                       [m EXCEPT
                          !.server_lock = "held",
                          !.servers = SubSeq(@, 1, i - 1)
                                        \o SubSeq(@, i + 1, Len(@)),
                          !.returned = "True"])
               IN manager' = IF saved.returned = "blocked" THEN saved
                             ELSE [saved EXCEPT !.server_lock = "free"]
    /\ UNCHANGED <<mainVars, magnet, ed2k, baidu, amule, parse, caches>>

(***************************************************************************)
(* The link caches of MagnetManager (src/src/core/magnet_manager.py) and   *)
(* ED2KManager (src/src/core/ed2k_manager.py)                              *)
(***************************************************************************)

\* self.max_cache_size (100 in the code)
max_cache_size == 2

\* the successful parse calls of one run
MaxParses == 4

\* the hashes of the links handed to the parsers, as written in the link
LinkHashes == {"A1", "a1", "b2", "c3"}

\* str.lower()
lower(h) == IF h = "A1" THEN "a1" ELSE h

\* both managers after __init__: empty caches.  A cache is the list of its
\* keys in insertion order (a dict iterates in that order); parsed is the
\* hash of the link parsed last, into is the cache it went to
NewCaches ==
    [magnet_cache |-> <<>>, ed2k_cache |-> <<>>, parses |-> 0,
     parsed |-> "none", into |-> "none"]

\* _cache_magnet_info / _cache_ed2k_info: when the cache holds
\* max_cache_size entries the oldest key is deleted, then cache[key] is
\* assigned (a key that is present keeps its place)
cache_info(cache, key) ==
    LET kept == IF Len(cache) >= max_cache_size THEN Tail(cache) ELSE cache
    IN IF \E i \in 1..Len(kept) : kept[i] = key THEN kept
       ELSE Append(kept, key)

\* get_cached_magnet_info / get_cached_ed2k_info: the entry is found
get_cached_info(cache, hash) ==
    \E i \in 1..Len(cache) : cache[i] = lower(hash)

\* parse_magnet_url for a valid link with info hash `hash`
parse_magnet_url(hash) ==
    /\ caches.parses < MaxParses
    /\ caches' = [caches EXCEPT
                    !.magnet_cache = cache_info(@, lower(hash)),
                    !.parses = @ + 1, !.parsed = hash,
                    !.into = "magnet_cache"]
    /\ UNCHANGED <<mainVars, magnet, ed2k, baidu, amule, parse, manager>>

\* parse_ed2k_url for a valid link with file hash `hash`
parse_ed2k_url(hash) ==
    /\ caches.parses < MaxParses
    /\ caches' = [caches EXCEPT
                    !.ed2k_cache = cache_info(@, lower(hash)),
                    !.parses = @ + 1, !.parsed = hash,
                    !.into = "ed2k_cache"]
    /\ UNCHANGED <<mainVars, magnet, ed2k, baidu, amule, parse, manager>>

(***************************************************************************)
(* Specification of VideoDownloader with its DownloadWorkers               *)
(***************************************************************************)

InitMain ==
    /\ is_downloading = FALSE
    /\ download_progress = EmptyMap
    /\ download_workers = <<>>
    /\ download_queue = <<>>
    /\ active_downloads = 0
    /\ download_button = FALSE
    /\ pause_button = FALSE
    /\ cancel_button = FALSE
    /\ pause_text = "pause"
    /\ progress_bar = FALSE
    /\ dialogs = <<>>
    /\ events = <<>>
    /\ thread = [w \in Workers |-> Unborn]

InitTasks ==
    /\ magnet = NewMagnet
    /\ ed2k = NewED2K
    /\ baidu = NewBaidu
    /\ amule = NewAMule
    /\ parse = NewParse
    /\ manager = NewManager
    /\ caches = NewCaches

Init == InitMain /\ InitTasks /\ ledger = NoLedger

\* the selections of the user: the first n leaves of the tree are ticked
Selections == {1..n : n \in Formats}

Next ==
    \/ finalize_parse /\ UNCHANGED <<taskVars, ledger>>
    \/ (\E checked \in Selections : download_selected(checked, MaxRequests))
           /\ UNCHANGED <<taskVars, ledger>>
    \/ update_download_progress(MaxRequests) /\ UNCHANGED <<taskVars, ledger>>
    \/ download_progress_hook /\ UNCHANGED <<taskVars, ledger>>
    \/ on_download_finished /\ UNCHANGED <<taskVars, ledger>>
    \/ completion_closed /\ UNCHANGED <<taskVars, ledger>>
    \/ on_download_error /\ UNCHANGED <<taskVars, ledger>>
    \/ error_closed /\ UNCHANGED <<taskVars, ledger>>
    \/ pause_downloads /\ UNCHANGED <<taskVars, ledger>>
    \/ cancel_downloads /\ UNCHANGED <<taskVars, ledger>>
    \/ (\E yes \in BOOLEAN : cancel_answered(yes)) /\ UNCHANGED <<taskVars, ledger>>
    \/ (\E w \in Workers : run_loop(w)) /\ UNCHANGED <<taskVars, ledger>>
    \/ (\E w \in Workers, d \in ProgressDicts : progress_hook(w, d))
           /\ UNCHANGED <<taskVars, ledger>>
    \/ (\E w \in Workers : download_returns(w)) /\ UNCHANGED <<taskVars, ledger>>
    \/ (\E w \in Workers : download_raises(w)) /\ UNCHANGED <<taskVars, ledger>>
    \/ (\E w \in Workers : thread_exit(w)) /\ UNCHANGED <<taskVars, ledger>>

Spec == Init /\ [][Next]_vars

(***************************************************************************)
(* SchedSpec: the same handlers and threads over longer runs: every batch  *)
(* ticks all leaves, no progress is reported, and the pause and cancel     *)
(* buttons are not used                                                    *)
(***************************************************************************)

SchedNext ==
    \/ finalize_parse /\ UNCHANGED <<taskVars, ledger>>
    \/ download_selected(Formats, MaxWorkers) /\ UNCHANGED <<taskVars, ledger>>
    \/ update_download_progress(MaxWorkers) /\ UNCHANGED <<taskVars, ledger>>
    \/ on_download_finished /\ UNCHANGED <<taskVars, ledger>>
    \/ completion_closed /\ UNCHANGED <<taskVars, ledger>>
    \/ on_download_error /\ UNCHANGED <<taskVars, ledger>>
    \/ error_closed /\ UNCHANGED <<taskVars, ledger>>
    \/ (\E w \in Workers : run_loop(w)) /\ UNCHANGED <<taskVars, ledger>>
    \/ (\E w \in Workers : download_returns(w)) /\ UNCHANGED <<taskVars, ledger>>
    \/ (\E w \in Workers : download_raises(w)) /\ UNCHANGED <<taskVars, ledger>>
    \/ (\E w \in Workers : thread_exit(w)) /\ UNCHANGED <<taskVars, ledger>>

SchedSpec == Init /\ [][SchedNext]_vars

(***************************************************************************)
(* TaskSpec: the two link workers and their controls                       *)
(***************************************************************************)

\* what torrent_handle.status() shows in one pass of the loop
TorrentStatus == {"downloading", "seeding", "error"}

TaskNext ==
    \/ (\E ok \in BOOLEAN : magnet_run(ok)) /\ UNCHANGED ledger
    \/ (\E status \in TorrentStatus : magnet_download_loop(status))
           /\ UNCHANGED ledger
    \/ magnet_except /\ UNCHANGED ledger
    \/ magnet_cleanup /\ UNCHANGED ledger
    \/ magnet_cancel /\ UNCHANGED ledger
    \/ magnet_pause /\ UNCHANGED ledger
    \/ magnet_resume /\ UNCHANGED ledger
    \/ (\E existing \in 0..TotalChunks : ed2k_run(existing))
           /\ UNCHANGED ledger
    \/ download_with_real_ed2k /\ UNCHANGED ledger
    \/ download_file_worker /\ UNCHANGED ledger
    \/ server_lost /\ UNCHANGED ledger
    \/ ed2k_chunk /\ UNCHANGED ledger
    \/ ed2k_after_loop /\ UNCHANGED ledger
    \/ ed2k_finally /\ UNCHANGED ledger
    \/ ed2k_pause /\ UNCHANGED ledger
    \/ ed2k_resume /\ UNCHANGED ledger
    \/ ed2k_stop /\ UNCHANGED ledger
    \/ baidu_run /\ UNCHANGED ledger
    \/ baidu_simulate_download /\ UNCHANGED ledger
    \/ baidu_after_loop /\ UNCHANGED ledger
    \/ baidu_finally /\ UNCHANGED ledger
    \/ baidu_pause /\ UNCHANGED ledger
    \/ baidu_resume /\ UNCHANGED ledger
    \/ baidu_stop /\ UNCHANGED ledger

TaskSpec == Init /\ [][TaskNext]_vars

(***************************************************************************)
(* AMuleSpec: BuiltinAMule alone, its owner calling add_download,          *)
(* pause_download, resume_download and cancel_download while the           *)
(* download-manager thread runs                                            *)
(***************************************************************************)

AMuleNext ==
    \/ (\E url \in Links, h \in Hashes : add_download(url, h))
           /\ UNCHANGED ledger
    \/ download_manager_worker /\ UNCHANGED ledger
    \/ (\E h \in Hashes, size \in 0..TotalChunks, ok \in BOOLEAN :
            update_download_progress_info(h, size, ok)) /\ UNCHANGED ledger
    \/ (\E h \in Hashes : pause_download(h)) /\ UNCHANGED ledger
    \/ (\E h \in Hashes : resume_download(h)) /\ UNCHANGED ledger
    \/ (\E h \in Hashes : cancel_download(h)) /\ UNCHANGED ledger

AMuleSpec == Init /\ [][AMuleNext]_vars

(***************************************************************************)
(* ParseSpec: one parse batch of VideoDownloader with its ParseWorkers     *)
(***************************************************************************)

ParseNext ==
    \/ (\E n \in 1..MaxUrls : parse_video(n)) /\ UNCHANGED ledger
    \/ (\E w \in 1..MaxUrls, entries \in 0..MaxEntries :
            parse_run(w, entries)) /\ UNCHANGED ledger
    \/ (\E w \in 1..MaxUrls : parse_emit(w)) /\ UNCHANGED ledger
    \/ (\E w \in 1..MaxUrls : parse_thread_exit(w)) /\ UNCHANGED ledger
    \/ cache_and_finish /\ UNCHANGED ledger
    \/ on_parse_error /\ UNCHANGED ledger

ParseSpec == Init /\ [][ParseNext]_vars

(***************************************************************************)
(* ManagerSpec: ED2KServerManager with the calls of its owner and of the   *)
(* auto-update thread                                                      *)
(***************************************************************************)

ManagerNext ==
    \/ (\E new_servers \in Fetched :
            update_servers_from_sources(new_servers)) /\ UNCHANGED ledger
    \/ (\E key \in ServerKeys, priority \in Priorities :
            add_custom_server(key, priority)) /\ UNCHANGED ledger
    \/ (\E key \in ServerKeys : remove_server(key)) /\ UNCHANGED ledger

ManagerSpec == Init /\ [][ManagerNext]_vars

(***************************************************************************)
(* CacheSpec: successful parses of magnet and ED2K links                   *)
(***************************************************************************)

CacheNext ==
    \/ (\E hash \in LinkHashes : parse_magnet_url(hash))
           /\ UNCHANGED ledger
    \/ (\E hash \in LinkHashes : parse_ed2k_url(hash)) /\ UNCHANGED ledger

CacheSpec == Init /\ [][CacheNext]_vars

(***************************************************************************)
(* AdmitSpec: the handlers and threads of SchedSpec with one leaf or all   *)
(* leaves ticked, keeping count of the terminations handled and of the     *)
(* requests taken out of download_queue                                    *)
(***************************************************************************)

\* what the user ticks before a click on download: the first leaf or all
Batches == {{1}, Formats}

\* on_download_finished / on_download_error has handled one terminal signal
Freed == ledger' = [ledger EXCEPT !.freed = @ + 1]

\* the while loop of update_download_progress has taken this many requests
\* out of download_queue
Admitted ==
    ledger' = [ledger EXCEPT
                 !.admitted = @ + Len(download_queue) - Len(download_queue')]

AdmitNext ==
    \/ finalize_parse /\ UNCHANGED <<taskVars, ledger>>
    \/ (\E checked \in Batches : download_selected(checked, MaxWorkers))
           /\ UNCHANGED <<taskVars, ledger>>
    \/ update_download_progress(MaxWorkers) /\ Admitted /\ UNCHANGED taskVars
    \/ on_download_finished /\ Freed /\ UNCHANGED taskVars
    \/ completion_closed /\ UNCHANGED <<taskVars, ledger>>
    \/ on_download_error /\ Freed /\ UNCHANGED taskVars
    \/ error_closed /\ UNCHANGED <<taskVars, ledger>>
    \/ (\E w \in Workers : run_loop(w)) /\ UNCHANGED <<taskVars, ledger>>
    \/ (\E w \in Workers : download_returns(w))
           /\ UNCHANGED <<taskVars, ledger>>
    \/ (\E w \in Workers : download_raises(w))
           /\ UNCHANGED <<taskVars, ledger>>
    \/ (\E w \in Workers : thread_exit(w)) /\ UNCHANGED <<taskVars, ledger>>

AdmitSpec == Init /\ [][AdmitNext]_vars

(***************************************************************************)
(* AgainSpec: the handlers and threads of AdmitSpec where a termination    *)
(* handler is invoked a second time with the signal it has handled         *)
(***************************************************************************)

\* on_download_finished / on_download_error handles the signal at the head:
\* a signal handled for the first time is remembered
Remember ==
    ledger' = IF Head(events) \in ledger.again
              THEN ledger
              ELSE [ledger EXCEPT !.handled = @ \cup {Head(events)}]

\* the handler of a terminal signal handled before is invoked once more with
\* the same arguments: the signal is handed to the GUI thread again, ahead of
\* what is waiting
invoked_again ==
    /\ \E e \in ledger.handled :
          /\ events' = <<e>> \o events
          /\ ledger' = [ledger EXCEPT !.handled = @ \ {e},
                                      !.again = @ \cup {e}]
    /\ UNCHANGED <<guiVars, thread, taskVars>>

AgainNext ==
    \/ finalize_parse /\ UNCHANGED <<taskVars, ledger>>
    \/ (\E checked \in Batches : download_selected(checked, MaxRequests))
           /\ UNCHANGED <<taskVars, ledger>>
    \/ update_download_progress(MaxRequests) /\ UNCHANGED <<taskVars, ledger>>
    \/ on_download_finished /\ Remember /\ UNCHANGED taskVars
    \/ completion_closed /\ UNCHANGED <<taskVars, ledger>>
    \/ on_download_error /\ Remember /\ UNCHANGED taskVars
    \/ error_closed /\ UNCHANGED <<taskVars, ledger>>
    \/ invoked_again
    \/ (\E w \in Workers : run_loop(w)) /\ UNCHANGED <<taskVars, ledger>>
    \/ (\E w \in Workers : download_returns(w))
           /\ UNCHANGED <<taskVars, ledger>>
    \/ (\E w \in Workers : download_raises(w))
           /\ UNCHANGED <<taskVars, ledger>>
    \/ (\E w \in Workers : thread_exit(w)) /\ UNCHANGED <<taskVars, ledger>>

AgainSpec == Init /\ [][AgainNext]_vars

(***************************************************************************)
(* LiveSpec: one download of the first leaf with its pause and cancel      *)
(* buttons, next to the magnet worker and the ED2K worker in simulation    *)
(* mode (target file absent), every thread being scheduled again and again *)
(***************************************************************************)

LiveNext ==
    \/ finalize_parse /\ UNCHANGED <<taskVars, ledger>>
    \/ download_selected({1}, MaxLive) /\ UNCHANGED <<taskVars, ledger>>
    \/ on_download_finished /\ UNCHANGED <<taskVars, ledger>>
    \/ completion_closed /\ UNCHANGED <<taskVars, ledger>>
    \/ on_download_error /\ UNCHANGED <<taskVars, ledger>>
    \/ error_closed /\ UNCHANGED <<taskVars, ledger>>
    \/ pause_downloads /\ UNCHANGED <<taskVars, ledger>>
    \/ cancel_downloads /\ UNCHANGED <<taskVars, ledger>>
    \/ (\E yes \in BOOLEAN : cancel_answered(yes))
           /\ UNCHANGED <<taskVars, ledger>>
    \/ (\E w \in Workers : run_loop(w)) /\ UNCHANGED <<taskVars, ledger>>
    \/ (\E w \in Workers : download_returns(w))
           /\ UNCHANGED <<taskVars, ledger>>
    \/ (\E w \in Workers : download_raises(w))
           /\ UNCHANGED <<taskVars, ledger>>
    \/ (\E w \in Workers : thread_exit(w)) /\ UNCHANGED <<taskVars, ledger>>
    \/ (\E ok \in BOOLEAN : magnet_run(ok)) /\ UNCHANGED ledger
    \/ (\E status \in TorrentStatus : magnet_download_loop(status))
           /\ UNCHANGED ledger
    \/ magnet_except /\ UNCHANGED ledger
    \/ magnet_cleanup /\ UNCHANGED ledger
    \/ magnet_cancel /\ UNCHANGED ledger
    \/ magnet_pause /\ UNCHANGED ledger
    \/ magnet_resume /\ UNCHANGED ledger
    \/ ed2k_run(0) /\ UNCHANGED ledger
    \/ ed2k_chunk /\ UNCHANGED ledger
    \/ ed2k_after_loop /\ UNCHANGED ledger
    \/ ed2k_finally /\ UNCHANGED ledger
    \/ ed2k_pause /\ UNCHANGED ledger
    \/ ed2k_resume /\ UNCHANGED ledger
    \/ ed2k_stop /\ UNCHANGED ledger

\* the operating system gives every thread that can take a step a turn:
\* QThread.run of each DownloadWorker, of the magnet and of the ED2K worker
ThreadsRun ==
    /\ \A w \in 1..MaxLive :
          /\ WF_vars(run_loop(w) /\ UNCHANGED <<taskVars, ledger>>)
          /\ WF_vars(download_returns(w) /\ UNCHANGED <<taskVars, ledger>>)
          /\ WF_vars(thread_exit(w) /\ UNCHANGED <<taskVars, ledger>>)
    /\ WF_vars((\E ok \in BOOLEAN : magnet_run(ok)) /\ UNCHANGED ledger)
    /\ WF_vars((\E status \in TorrentStatus : magnet_download_loop(status))
                  /\ UNCHANGED ledger)
    /\ WF_vars(magnet_except /\ UNCHANGED ledger)
    /\ WF_vars(magnet_cleanup /\ UNCHANGED ledger)
    /\ WF_vars(ed2k_run(0) /\ UNCHANGED ledger)
    /\ WF_vars(ed2k_chunk /\ UNCHANGED ledger)
    /\ WF_vars(ed2k_after_loop /\ UNCHANGED ledger)
    /\ WF_vars(ed2k_finally /\ UNCHANGED ledger)

LiveSpec == Init /\ [][LiveNext]_vars /\ ThreadsRun

(***************************************************************************)
(* Properties                                                              *)
(***************************************************************************)

\* the download workers that have been started and have not terminated:
\* their thread is in the loop of run(), running or paused
Occupying == {w \in Workers : thread[w].pc \in {"run", "download"}}

\* C1 -- capacity: in every reachable state the number of download workers
\* that have been started and have not yet terminated (running or paused)
\* is at most MAX_CONCURRENT_DOWNLOADS
C1_Capacity == Cardinality(Occupying) <= MAX_CONCURRENT_DOWNLOADS

\* a step of the handling of an error event: on_download_error up to its
\* message box, or the rest of it once the box is closed
ErrorHandlingStep ==
    \/ HeadIs("error") /\ events' = Tail(events)
    \/ Top = "error" /\ Len(dialogs') < Len(dialogs)

\* C2 -- failure isolation: the handling of one task's error event leaves
\* every sibling that was running and tracked running and still in
\* download_workers, and leaves download_queue as it was
C2_FailureIsolation ==
    [][ErrorHandlingStep =>
          /\ \A w \in Range(download_workers) \cap Occupying :
                 /\ thread'[w].pc = thread[w].pc
                 /\ w \in Range(download_workers')
          /\ download_queue' = download_queue]_vars

\* the workers a step creates, and their formats in the order of creation
Started == Born(thread') \ Born(thread)
StartedFmts ==
    [i \in 1..Cardinality(Started) |->
        thread'[Cardinality(Born(thread)) + i].fmt]

\* what a step appends to download_queue
Appended == SubSeq(download_queue', Len(download_queue) + 1,
                   Len(download_queue'))

\* a step of download_selected: the only handler that disables the button
SubmitStep == download_button /\ ~download_button'

\* C3 -- FIFO admission: the requests of one batch are started in the order
\* of submission: a submit step starts a prefix of the batch and appends the
\* rest, in order, behind what is already queued; every other step that
\* starts workers starts exactly the oldest entries of download_queue, oldest
\* first, and no step but cancel-all removes an entry without starting it
C3_FifoAdmission ==
    [][IF SubmitStep
       THEN /\ Len(download_queue) <= Len(download_queue')
            /\ SubSeq(download_queue', 1, Len(download_queue)) = download_queue
            /\ \E checked \in SUBSET Formats :
                   StartedFmts \o Appended = InTreeOrder(checked)
       ELSE IF Started = {}
       THEN download_queue' = download_queue \/ download_queue' = <<>>
       ELSE \E k \in 1..Len(download_queue) :
               /\ StartedFmts = SubSeq(download_queue, 1, k)
               /\ download_queue' =
                      SubSeq(download_queue, k + 1, Len(download_queue))]_vars

\* two requests of one batch waited in the queue; the older one has been
\* admitted and runs, the younger one still waits
C3_Witness ==
    /\ download_queue = <<4>>
    /\ \E w \in Workers : thread[w].fmt = 3 /\ thread[w].pc = "download"

Min(a, b) == IF a <= b THEN a ELSE b

\* C4 -- basic flow: a submit of n requests while no task is active starts
\* the first min(n, MAX_CONCURRENT_DOWNLOADS) of them inside the call and
\* appends the others to the queue; a later step that admits from the queue
\* starts its head and leaves every other running task running
C4_BasicFlow ==
    [][/\ SubmitStep /\ Occupying = {} =>
             Cardinality(Started) =
                 Min(Cardinality(Started) + Len(Appended),
                     MAX_CONCURRENT_DOWNLOADS)
       /\ ~SubmitStep /\ Started # {} =>
             /\ StartedFmts[1] = Head(download_queue)
             /\ \A w \in Occupying : thread'[w] = thread[w]]_vars

\* a step of cancel_downloads after the question was answered with Yes
CancelConfirmedStep ==
    /\ Top = "cancel" /\ Len(dialogs') < Len(dialogs)
    /\ ~download_button /\ download_button'

\* C5 -- cancel-all drains the queue: the confirmed cancel_downloads flags
\* every worker that is running, empties download_queue in the same step and
\* waits for no worker (no thread moves in that step)
C5_CancelAllDrains ==
    [][CancelConfirmedStep =>
          /\ \A w \in Occupying : thread'[w].is_cancelled
          /\ \A w \in Workers : thread'[w].pc = thread[w].pc
          /\ download_queue' = <<>>]_vars

\* C6 -- terminal event uniqueness: a link worker whose thread has stopped
\* has emitted exactly one terminal event, finished or error, never a second
\* one, and no progress after it
C6_TerminalEventUniqueness ==
    \A t \in {magnet, ed2k} :
        /\ t.pc = "done" => t.emitted \in {"finished", "error"}
        /\ t.emitted # "twice"
        /\ ~t.late

\* C7 -- cancellation is reported: a download worker that was cancelled and
\* whose thread has stopped has emitted a terminal event
C7_CancellationReported ==
    \A w \in Workers :
        thread[w].pc = "done" /\ thread[w].is_cancelled
            => thread[w].emitted # "none"

\* C7 as amended -- a download worker whose cancel flag is set emits no
\* terminal event from then on, and the confirmed cancel_downloads does the
\* bookkeeping itself: nothing is counted or tracked after it
C7_CancellationIsSilent ==
    [][/\ \A w \in Workers :
              thread[w].is_cancelled => thread'[w].emitted = thread[w].emitted
       /\ CancelConfirmedStep =>
              active_downloads' = 0 /\ download_workers' = <<>>]_vars

\* a worker cancelled inside its loop has left run() without a terminal event
C7_Witness ==
    \E w \in Workers :
        /\ thread[w].pc = "done" /\ thread[w].is_cancelled
        /\ thread[w].emitted = "none"

\* C8 -- pause never ends a task: a link worker that is at its loop, paused
\* and not cancelled stays at its loop
C8_PauseNeverEnds ==
    [][/\ magnet.pc = "loop" /\ magnet.is_paused /\ ~magnet.is_cancelled
              => magnet'.pc = "loop"
       /\ ed2k.pc = "loop" /\ ed2k.is_paused /\ ed2k.is_running
              => ed2k'.pc = "loop"]_vars

\* C9 -- no duplicate task: no two download workers that are started and not
\* terminated download the same format (same url, same output file)
C9_NoDuplicateTask ==
    \A v, w \in Occupying : v # w => thread[v].fmt # thread[w].fmt

\* a step of pause_downloads: the only handler that changes the button text
\* other than a reset
PauseStep == pause_button /\ pause_button' /\ pause_text' # pause_text

\* C10 -- no terminal re-entry: a progress event of a cancelled worker is
\* handled without a change of download_progress, and pause / resume change
\* nothing of a worker whose thread has stopped
C10_NoTerminalReentry ==
    [][/\ ( /\ HeadIs("progress") /\ events' = Tail(events)
            /\ thread[Head(events).w].is_cancelled )
              => download_progress' = download_progress
       /\ PauseStep =>
              \A w \in Workers : thread[w].pc = "done"
                                    => thread'[w] = thread[w]]_vars

\* every thread has stopped, every posted signal has been handled, no dialog
\* is open and a tick of the timer admits nothing: only a click of the user
\* changes the state from here
Settled ==
    /\ events = <<>>
    /\ dialogs = <<>>
    /\ \A w \in Workers : ~isRunning(w)
    /\ \/ ~is_downloading
       \/ DOMAIN download_progress = {}
       \/ Admit(Sched).q = download_queue

\* C11 -- no request stays queued for ever: once every started task has
\* terminated and every termination has been handled, the requests that
\* waited in download_queue have all been given a slot, so the queue is empty
C11_QueueDrains == Settled => download_queue = <<>>

\* C12 -- the requests admitted from download_queue never outnumber the
\* slots freed by terminated tasks: at every moment the count of requests
\* the tick has taken out of the queue is at most the count of terminal
\* signals (finished or error) the handlers have handled
C12_AdmissionsWithinFreedSlots == ledger.admitted <= ledger.freed

\* sum(percent for percent, _ in self.download_progress.values()) over the
\* entries with the keys in K
RECURSIVE SumPercent(_, _)
SumPercent(prog, K) ==
    IF K = {} THEN 0
    ELSE LET k == CHOOSE x \in K : TRUE
         IN prog[k] + SumPercent(prog, K \ {k})

\* total_percent and the divisor len(self.download_progress) of the tick
total_percent == SumPercent(download_progress, DOMAIN download_progress)
entries == Cardinality(DOMAIN download_progress)

\* the percent a started worker reported last: that of the last progress
\* signal handled for its file, 0 when none was handled yet
LastReported(w) ==
    IF FileKey(thread[w].fmt) \in DOMAIN download_progress
    THEN download_progress[FileKey(thread[w].fmt)]
    ELSE 0

RECURSIVE SumReported(_)
SumReported(W) ==
    IF W = {} THEN 0
    ELSE LET w == CHOOSE x \in W : TRUE
         IN LastReported(w) + SumReported(W \ {w})

\* C13 -- whenever the tick computes the overall percent while at least one
\* task is active, total_percent / len(download_progress) is the arithmetic
\* mean of the percents the active tasks reported last, one entry per active
\* task (both means compared after multiplying by the two divisors)
C13_MeanOfActiveTasks ==
    (is_downloading /\ entries > 0 /\ Occupying # {})
        => total_percent * Cardinality(Occupying)
               = SumReported(Occupying) * entries

\* a step in which on_download_finished handles the finished signal of a task
FinishedHandlingStep == HeadIs("finished") /\ events' = Tail(events)

\* the keys under which the task of the signal at the head is tracked
HeadKeys == {DescKey(Head(events).fmt), FileKey(Head(events).fmt)}

\* C14 (as claimed) -- the handling of a task's finished signal removes the
\* entries of that task from download_progress
C14_TerminatedEntryRemoved ==
    [][FinishedHandlingStep
          => HeadKeys \cap DOMAIN download_progress' = {}]_vars

\* C14 -- the handling of a finished signal leaves download_progress as it
\* is, and entries leave the mapping only all together: when a reset clears
\* it or when the next download_selected starts from an empty mapping
C14_EntriesStayUntilReset ==
    [][/\ FinishedHandlingStep => download_progress' = download_progress
       /\ \/ DOMAIN download_progress \subseteq DOMAIN download_progress'
          \/ download_progress' = EmptyMap
          \/ SubmitStep]_vars

\* a finished task whose signal has been handled is still tracked, at 100,
\* next to a task that is still active
C14_Witness ==
    /\ is_downloading
    /\ events = <<>>
    /\ \E w \in Workers :
          /\ thread[w].pc = "exiting"
          /\ thread[w].emitted = "finished"
          /\ DescKey(thread[w].fmt) \in DOMAIN download_progress
          /\ FileKey(thread[w].fmt) \in DOMAIN download_progress
          /\ download_progress[FileKey(thread[w].fmt)] = 100
          /\ Occupying \ {w} # {}

\* the guard of update_download_progress: nothing is being downloaded or no
\* task is tracked
IdleGuard == ~is_downloading \/ entries = 0

\* C15 -- the tick never divides by zero: in a state where the orchestrator
\* is not downloading or download_progress is empty, no step but a new
\* download_selected shows the progress bar or starts a worker, that is, the
\* tick reports the idle state and does not reach the division and the
\* admission loop
C15_IdleGuard ==
    [][IdleGuard /\ ~SubmitStep => ~progress_bar' /\ Started = {}]_vars

\* the guard holds although there are percents to average and a request to
\* admit: the tick has left the bar hidden and the queue as it was
C15_Witness ==
    /\ ~is_downloading
    /\ entries > 0
    /\ download_queue # <<>>
    /\ ~progress_bar

\* no progress signal for the file of format f waits to be handled
NoReportPending(f) ==
    \A i \in 1..Len(events) :
        events[i].kind = "progress" => events[i].fmt # f

\* a step in which download_progress_hook handles a progress signal
ProgressHandlingStep == HeadIs("progress") /\ events' = Tail(events)

\* C16 -- pause preserves progress: the click on pause (or resume) leaves
\* download_progress as it is; while a tracked task stays paused and no
\* report of its file is still to be handled, every step (ticks included)
\* keeps its entry at the percent reported last; and every progress signal
\* handled, also after a resume, sets the entry to the reported percent
C16_PausePreservesProgress ==
    [][/\ PauseStep => download_progress' = download_progress
       /\ \A w \in Range(download_workers) \cap Range(download_workers') :
             ( /\ isRunning(w)
               /\ thread[w].is_paused /\ thread'[w].is_paused
               /\ FileKey(thread[w].fmt) \in DOMAIN download_progress
               /\ NoReportPending(thread[w].fmt) )
                 => /\ FileKey(thread[w].fmt) \in DOMAIN download_progress'
                    /\ download_progress'[FileKey(thread[w].fmt)]
                           = download_progress[FileKey(thread[w].fmt)]
       /\ ProgressHandlingStep =>
             LET e == Head(events)
             IN download_progress'[FileKey(e.fmt)] =
                    IF e.d.status = "downloading" THEN e.d.percent ELSE 100
      ]_vars

\* a tracked task that reported 40 is paused: it waits at the top of its
\* loop and its entry is 40
C16_Witness ==
    /\ pause_text = "resume"
    /\ events = <<>>
    /\ \E w \in Range(download_workers) :
          /\ thread[w].pc = "run"
          /\ thread[w].is_paused
          /\ FileKey(thread[w].fmt) \in DOMAIN download_progress
          /\ download_progress[FileKey(thread[w].fmt)] = 40

\* a call of resume() on a paused ED2K worker, a paused magnet worker
ED2KResumeStep == ed2k.is_paused /\ ed2k' = resume(ed2k)
MagnetResumeStep == magnet.is_paused /\ magnet' = resume(magnet)

\* C17 -- pause idempotence: a second pause() leaves a worker as the first
\* one did, and one resume() afterwards makes the task run again: a worker
\* that was neither cancelled nor through with its transfer is back in its
\* download loop, not paused
C17_PauseIdempotent ==
    [][/\ pause(pause(ed2k)) = pause(ed2k)
       /\ pause(pause(magnet)) = pause(magnet)
       /\ ( /\ ED2KResumeStep
            /\ ~ed2k.stopped
            /\ ed2k.chunks < TotalChunks )
              => ed2k'.pc \in {"started", "loop"} /\ ~ed2k'.is_paused
       /\ ( /\ MagnetResumeStep
            /\ ~magnet.is_cancelled
            /\ magnet.pc \in {"init", "loop"} )
              => magnet'.pc \in {"init", "loop"} /\ ~magnet'.is_paused
      ]_vars

\* a step in which on_download_finished or on_download_error is invoked for
\* the second time for the same task
SecondInvocationStep ==
    /\ events # <<>>
    /\ Head(events) \in ledger.again
    /\ events' = Tail(events)

\* C18 -- termination handling is idempotent: the second invocation of the
\* termination handler for a task releases no slot and changes nothing:
\* active_downloads, download_queue and download_workers stay as the first
\* invocation left them
C18_SecondInvocationIsNoOp ==
    [][SecondInvocationStep
          => UNCHANGED <<active_downloads, download_queue,
                         download_workers>>]_vars

\* C19 -- pause-all leaves the queue alone: a click on pause or resume
\* changes download_queue and active_downloads not at all and, of the
\* workers, only the pause flag of those that are tracked and running; and
\* every worker that is started, also one admitted from the queue while the
\* others are paused, starts with its pause flag clear
C19_PauseLeavesQueueAlone ==
    [][/\ PauseStep =>
             /\ UNCHANGED <<download_queue, active_downloads,
                            download_workers>>
             /\ \A w \in Workers :
                   thread'[w] # thread[w] =>
                       /\ w \in Reached
                       /\ thread'[w] = [thread[w] EXCEPT
                                          !.is_paused = thread'[w].is_paused]
       /\ \A w \in Started :
             thread'[w].pc = "run" /\ ~thread'[w].is_paused
      ]_vars

\* while worker 2 is paused, the request that waited in the queue has been
\* admitted as worker 3, which runs unpaused
C19_Witness ==
    /\ pause_text = "resume"
    /\ download_queue = <<>>
    /\ {2, 3} \subseteq Range(download_workers)
    /\ thread[2].is_paused /\ thread[2].pc = "run"
    /\ thread[3].fmt = 3
    /\ thread[3].pc = "download" /\ ~thread[3].is_paused

\* C20 -- cancel is irreversible: from a state in which cancel() has been
\* called on an ED2K worker, no step writes further data (neither the chunk
\* loop of the worker nor the download thread of ED2KProtocol), no step emits
\* download_finished, and no resume() leaves the worker running in its chunk
\* loop; likewise the cancelled magnet worker reports and emits nothing more
C20_CancelIsIrreversible ==
    [][/\ ed2k.stopped =>
             /\ ed2k'.chunks = ed2k.chunks
             /\ ed2k'.ed2k_protocol.remaining >= ed2k.ed2k_protocol.remaining
             /\ ed2k'.emitted = "finished" => ed2k.emitted = "finished"
             /\ ED2KResumeStep
                   => ~(ed2k'.pc \in {"started", "loop"} /\ ed2k'.is_running)
       /\ magnet.is_cancelled =>
             /\ magnet'.emitted = magnet.emitted
             /\ magnet'.reported = magnet.reported
      ]_vars

\* C21 -- cancel works from paused: a worker that is paused when cancel()
\* has been called on it leaves its pause wait and its thread terminates,
\* with no resume(): the DownloadWorker with both flags set, the magnet
\* worker with both flags set, and the ED2K worker after stop() all reach
\* the end of run()
C21_CancelFromPaused ==
    /\ \A w \in 1..MaxLive :
          (thread[w].is_cancelled /\ thread[w].is_paused /\ isRunning(w))
              ~> (thread[w].pc = "done")
    /\ (magnet.is_cancelled /\ magnet.is_paused) ~> (magnet.pc = "done")
    /\ ed2k.stopped ~> (ed2k.pc = "done")

\* worker 1 and the magnet worker are each waiting in their pause, with
\* cancel() called on them, and stop() has been called on the ED2K worker
\* that was paused in its chunk loop
C21_Witness ==
    /\ thread[1].pc = "run" /\ thread[1].is_paused /\ thread[1].is_cancelled
    /\ magnet.pc = "loop" /\ magnet.is_paused /\ magnet.is_cancelled
    /\ ed2k.pc = "after" /\ ed2k.stopped /\ ed2k.chunks < TotalChunks

\* C22 -- the failure notification identifies the task: the arguments
\* on_download_error receives for the failures of two different tasks
\* differ, so the handler can tell which of the concurrent tasks failed
C22_FailureIdentifiesTask ==
    \A i, j \in 1..Len(events) :
        ( /\ events[i].kind = "error" /\ events[j].kind = "error"
          /\ events[i].w # events[j].w )
            => Delivered(events[i]) # Delivered(events[j])

\* C23 -- timeouts and errors surface as failed: when the except clause of
\* MagnetDownloadWorker.run handles an exception and cancel() was not called,
\* the error signal is emitted, exactly once, whatever the pause flag is
C23_ErrorsSurface ==
    [][(magnet.pc = "raised" /\ magnet'.pc = "exiting"
            /\ ~magnet.is_cancelled)
          => (magnet.emitted = "none" /\ magnet'.emitted = "error")]_vars

\* C24 -- pause stops the transfer: while a link task stays paused (pause()
\* observed, resume() not called) it emits no progress and the bytes it has
\* downloaded do not grow, for MagnetDownloadWorker, ED2KDownloadWorker (its
\* own loop and the download thread of its ED2KProtocol) and BaiduPanWorker
C24_PauseStopsTransfer ==
    [][/\ (magnet.is_paused /\ magnet'.is_paused)
              => magnet'.reported = magnet.reported
       /\ (ed2k.is_paused /\ ed2k'.is_paused)
              => /\ ed2k'.chunks = ed2k.chunks
                 /\ ed2k'.ed2k_protocol.remaining >= ed2k.ed2k_protocol.remaining
       /\ (baidu.pause_called /\ baidu'.pause_called)
              => baidu'.progress = baidu.progress]_vars

\* a call of add_download returns in this step
AddDownloadStep == amule'.calls # amule.calls

\* C25 -- rejected requests are never queued: add_download with a link that
\* does not start with ed2k:// returns False and leaves download_queue and
\* downloads as they were, and download_queue grows only in a call of
\* add_download that returns True, by the request of that call
C25_RejectedNeverQueued ==
    [][/\ (AddDownloadStep /\ ~startswith(amule'.ed2k_url, "ed2k://"))
              => ~amule'.returned
       /\ (AddDownloadStep /\ ~amule'.returned)
              => /\ amule'.download_queue = amule.download_queue
                 /\ amule'.downloads = amule.downloads
                 /\ amule'.infos = amule.infos
       /\ Len(amule'.download_queue) > Len(amule.download_queue)
              => /\ AddDownloadStep /\ amule'.returned
                 /\ amule'.download_queue =
                        Append(amule.download_queue, Len(amule'.infos))]_vars

\* a link was rejected while an accepted request waits in the queue
C25_Witness ==
    /\ ~amule.returned /\ ~startswith(amule.ed2k_url, "ed2k://")
    /\ amule.download_queue # <<>>

\* download_info i waits in the pending list q
Waiting(i, q) == \E k \in 1..Len(q) : q[k] = i

\* C26 -- cancelling a queued download prevents its start: cancel_download
\* for a download_info that waits in download_queue removes it from the
\* queue, and _start_download never runs for a download_info cancelled
\* before its start
C26_CancelledNeverStarts ==
    [][\A i \in 1..Len(amule.infos) :
          /\ ( /\ ~amule.infos[i].cancelled /\ amule'.infos[i].cancelled
               /\ Waiting(i, amule.download_queue) )
                => ~Waiting(i, amule'.download_queue)
          /\ (amule.infos[i].cancelled /\ ~amule.infos[i].started)
                => ~amule'.infos[i].started]_vars

\* C27 -- terminal status is final in BuiltinAMule: a download_info whose
\* status is 'completed' or 'error' keeps that status, and
\* on_download_complete is called at most once for it
C27_TerminalStatusIsFinal ==
    [][\A i \in 1..Len(amule.infos) :
          /\ amule.infos[i].status \in {"completed", "error"}
                => amule'.infos[i].status = amule.infos[i].status
          /\ amule'.infos[i].emitted # "twice"]_vars

\* the terminal signal of download worker w has been handled: it was emitted
\* and is no longer among the posted signals
Handled(w) ==
    /\ thread[w].emitted # "none"
    /\ \A k \in 1..Len(events) :
           events[k].w = w => events[k].kind = "progress"

\* the download workers that were started and whose terminal signal has not
\* been handled (a worker cancelled by cancel-all emits none and is not
\* awaited)
Awaited ==
    {w \in Born(thread) : ~thread[w].is_cancelled /\ ~Handled(w)}

\* C28 -- counter consistency: in every reachable state active_downloads is
\* non-negative and equals the number of download workers that were started
\* and whose terminal signal has not yet been handled
C28_CounterConsistency ==
    /\ active_downloads >= 0
    /\ active_downloads = Cardinality(Awaited)

\* C29 -- idle implies empty queue: whenever is_downloading is False,
\* download_queue is empty
C29_IdleImpliesEmptyQueue == ~is_downloading => Len(download_queue) = 0

\* C30 -- batch completion is reached: when every task of the batch has
\* finished successfully, nothing was cancelled, every thread has stopped and
\* every signal has been handled (also when a finished signal was handled
\* while the emitting thread was still running), the completion step has run
\* and is_downloading is False
C30_BatchCompletionReached ==
    ( /\ Settled
      /\ download_queue = <<>>
      /\ \A w \in Born(thread) :
             thread[w].emitted = "finished" /\ ~thread[w].is_cancelled )
        => ~is_downloading

\* the completion dialogs open at once
OpenCompletions == {i \in 1..Len(dialogs) : dialogs[i] = "completion"}

\* C31 -- completion is announced at most once per batch: in a run where no
\* task failed and nothing was cancelled, show_completion_dialog is not
\* entered again while the completion dialog of the batch is still open, so
\* at most one completion dialog is open
C31_CompletionOnce ==
    (\A w \in Workers :
         thread[w].emitted # "error" /\ ~thread[w].is_cancelled)
        => Cardinality(OpenCompletions) <= 1

\* the finished signal of a worker flagged by cancel-all is handled in this
\* step
CancelledFinishedStep ==
    /\ HeadIs("finished") /\ events' = Tail(events)
    /\ thread[Head(events).w].is_cancelled

\* C32 -- no completion after cancel-all: a finished signal of a task of the
\* cancelled batch, emitted before the confirmed cancel and handled after
\* it, changes neither active_downloads nor the dialogs (no
\* show_completion_dialog)
C32_NoCompletionAfterCancel ==
    [][CancelledFinishedStep =>
          /\ active_downloads' = active_downloads
          /\ dialogs' = dialogs]_vars

\* C33 -- early control signals are not lost: a stop() / cancel() or pause()
\* issued before the thread has begun run() is still in effect once run()
\* executes: the ED2KDownloadWorker then is not running (stopped) or is
\* paused, the BaiduPanWorker is not running
C33_EarlySignalsKept ==
    [][/\ (ed2k.pc = "started" /\ ed2k'.pc # "started" /\ ed2k.stopped)
              => ~ed2k'.is_running
       /\ (ed2k.pc = "started" /\ ed2k'.pc # "started" /\ ed2k.is_paused)
              => ed2k'.is_paused
       /\ (baidu.pc = "started" /\ baidu'.pc # "started" /\ baidu.stopped)
              => ~baidu'.is_running]_vars

\* C34 -- ED2K progress is bounded: downloaded_size never exceeds the file
\* size and every emitted percent lies in 0..100, whatever the target file
\* held when the download began
C34_ProgressBounded ==
    /\ ed2k.downloaded_size <= TotalChunks
    /\ ed2k.progress \in 0..100

\* C35 -- ED2K completion means complete: the download thread of ED2KProtocol
\* calls on_download_complete only when nothing of the file remains to be
\* written; when its loop was left because the connection was lost, no
\* completion is reported
C35_CompletionMeansComplete ==
    [][( /\ ed2k.ed2k_protocol.pc = "transfer"
         /\ ed2k'.ed2k_protocol.pc = "done"
         /\ ed2k'.emitted # ed2k.emitted )
          => ed2k.ed2k_protocol.remaining = 0]_vars

\* the parse batch is over: every ParseWorker has stopped and every signal
\* it posted has been handled
ParseSettled ==
    /\ parse.parse_workers # <<>>
    /\ \A w \in 1..Len(parse.parse_workers) :
           parse.parse_workers[w].pc = "done"
    /\ parse.events = <<>>

\* C36 -- parsing always finalizes: finalize_parse is never called twice for
\* a batch, and once every ParseWorker of the batch has terminated and its
\* results or its error have been handled, finalize_parse has been called,
\* whether a result was handled before or after its thread stopped
C36_ParsingFinalizes ==
    /\ parse.finalized <= 1
    /\ ParseSettled => parse.finalized = 1

\* remove_server(ip, port) for a server of the list is called in this step
RemoveListedStep ==
    /\ manager'.now # manager.now
    /\ manager'.call = "remove_server"
    /\ \E i \in 1..Len(manager.servers) :
           manager.servers[i].key = manager'.arg

\* C37 -- remove_server terminates: remove_server for a server that is in
\* the list returns True with the server removed and the list saved, and
\* leaves server_lock released
C37_RemoveServerTerminates ==
    [][RemoveListedStep =>
          /\ manager'.returned = "True"
          /\ Len(manager'.servers) = Len(manager.servers) - 1
          /\ manager'.file = manager'.servers
          /\ manager'.server_lock = "free"]_vars

\* C38 -- server identity is unique: servers never holds two entries with
\* the same (ip, port)
C38_ServerIdentityUnique ==
    \A i, j \in 1..Len(manager.servers) :
        manager.servers[i].key = manager.servers[j].key => i = j

\* a successful parse stored its link in the cache that was `before` and is
\* `after`: the cache is within its bound, the link is retrievable, and an
\* entry has left the cache only when the cache was full and the link was
\* not in it, and then it is the oldest one
CacheStepOk(before, after) ==
    /\ Len(after) <= max_cache_size
    /\ get_cached_info(after, caches'.parsed)
    /\ Range(before) \ Range(after) # {}
          => /\ Len(before) = max_cache_size
             /\ ~get_cached_info(before, caches'.parsed)
             /\ Range(before) \ Range(after) = {Head(before)}

\* C39 -- link caches are bounded and fresh: after every successful
\* parse_magnet_url / parse_ed2k_url the cache holds at most max_cache_size
\* entries, the link just parsed is found by get_cached_magnet_info /
\* get_cached_ed2k_info, and an entry is evicted only to make room, the
\* oldest first
C39_CachesBoundedAndFresh ==
    [][/\ (caches'.parses # caches.parses /\ caches'.into = "magnet_cache")
              => CacheStepOk(caches.magnet_cache, caches'.magnet_cache)
       /\ (caches'.parses # caches.parses /\ caches'.into = "ed2k_cache")
              => CacheStepOk(caches.ed2k_cache, caches'.ed2k_cache)]_vars

====
